---- MODULE Spec2Model ----
(***************************************************************************)
(* Model of allegro_hand_controllers/src/allegro_node.cpp: the AllegroNode *)
(* base class (constructor, CAN transaction, per-tick controller update,   *)
(* publication, timer callback, destructor) run by a single-threaded ROS   *)
(* spinner.                                                                *)
(*                                                                         *)
(* double values are modelled as exact rationals <<n, d>> in lowest terms  *)
(* (d > 0), extended with the IEEE results of a division by zero:          *)
(* <<1,0>> = +inf, <<-1,0>> = -inf, <<0,0>> = NaN.                         *)
(***************************************************************************)
EXTENDS Integers, Sequences, FiniteSets, TLC

\* ------------------------------------------------------------------------
\* Bounds of the model
\* ------------------------------------------------------------------------

\* number of timer callbacks the model lets the scheduler fire
MaxTicks == 2

\* ------------------------------------------------------------------------
\* Program constants
\* ------------------------------------------------------------------------

\* number of joints (length of jointNames and of every joint array)
DOF_JOINTS == 16

\* nanoseconds per second (the 1e-9 factor of dt, and ros::Duration's nsec)
NSEC_PER_SEC == 1000000000

\* usleep(3000): settle delay in microseconds
SETTLE_USEC == 3000

Joints == 1..DOF_JOINTS

jointNames ==
  << "index_joint_0", "index_joint_1", "index_joint_2", "index_joint_3",
     "middle_joint_0", "middle_joint_1", "middle_joint_2", "middle_joint_3",
     "ring_joint_0", "ring_joint_1", "ring_joint_2", "ring_joint_3",
     "thumb_joint_0", "thumb_joint_1", "thumb_joint_2", "thumb_joint_3" >>

\* ------------------------------------------------------------------------
\* double arithmetic
\* ------------------------------------------------------------------------

Abs(n) == IF n < 0 THEN -n ELSE n

Sign(n) == IF n < 0 THEN -1 ELSE IF n > 0 THEN 1 ELSE 0

RECURSIVE GCD(_, _)
GCD(a, b) == IF b = 0 THEN a ELSE GCD(b, a % b)

\* the rational n/d (d > 0) in lowest terms
Norm(n, d) ==
  LET g == GCD(Abs(n), d) IN << n \div g, d \div g >>

Rat(n) == << n, 1 >>

Zero == << 0, 1 >>

NaN == << 0, 0 >>

Inf(s) == << s, 0 >>

IsFinite(x) == x[2] # 0

IsNaN(x) == x = NaN

\* x + y
Add(x, y) ==
  IF IsNaN(x) \/ IsNaN(y) THEN NaN
  ELSE IF ~IsFinite(x) /\ ~IsFinite(y) THEN (IF x = y THEN x ELSE NaN)
  ELSE IF ~IsFinite(x) THEN x
  ELSE IF ~IsFinite(y) THEN y
  ELSE LET g == GCD(x[2], y[2])
           l == (x[2] \div g) * y[2]
       IN  Norm(x[1] * (l \div x[2]) + y[1] * (l \div y[2]), l)

Neg(x) == << -x[1], x[2] >>

\* x - y
Sub(x, y) == Add(x, Neg(y))

\* x * y
Mul(x, y) ==
  IF IsNaN(x) \/ IsNaN(y) THEN NaN
  ELSE IF ~IsFinite(x) \/ ~IsFinite(y)
       THEN (IF x[1] = 0 \/ y[1] = 0 THEN NaN ELSE Inf(Sign(x[1]) * Sign(y[1])))
  ELSE LET g1 == GCD(Abs(x[1]), y[2])
           g2 == GCD(Abs(y[1]), x[2])
       IN  Norm((x[1] \div g1) * (y[1] \div g2), (x[2] \div g2) * (y[2] \div g1))

\* x / y for a finite y (the only divisor of the program is dt); a zero
\* divisor is +0.0, so the quotient is NaN, +inf or -inf as in IEEE 754
Div(x, y) ==
  IF IsNaN(x) THEN NaN
  ELSE IF y[1] = 0 THEN (IF x[1] = 0 THEN NaN ELSE Inf(Sign(x[1])))
  ELSE IF ~IsFinite(x) THEN Inf(Sign(x[1]) * Sign(y[1]))
  ELSE Mul(x, << Sign(y[1]) * y[2], Abs(y[1]) >>)

\* the filter coefficients 0.6 and 0.198
COEF_A == << 3, 5 >>

COEF_B == << 99, 500 >>

\* ------------------------------------------------------------------------
\* ros::Time and ros::Duration
\* ------------------------------------------------------------------------

\* ros::Time + ros::Duration, normalised so that 0 <= nsec < 1e9
TimeAdd(t, d) ==
  LET ns == t.nsec + d.nsec
  IN  IF ns >= NSEC_PER_SEC
      THEN [sec |-> t.sec + d.sec + 1, nsec |-> ns - NSEC_PER_SEC]
      ELSE [sec |-> t.sec + d.sec, nsec |-> ns]

\* ros::Time - ros::Time: a ros::Duration, normalised so that 0 <= nsec < 1e9
TimeSub(a, b) ==
  LET ns == a.nsec - b.nsec
  IN  IF ns < 0
      THEN [sec |-> a.sec - b.sec - 1, nsec |-> ns + NSEC_PER_SEC]
      ELSE [sec |-> a.sec - b.sec, nsec |-> ns]

\* ------------------------------------------------------------------------
\* Inputs
\* ------------------------------------------------------------------------

ZeroVec == [i \in Joints |-> Zero]

\* contents of storage the constructor leaves unwritten
GarbageVectors == { ZeroVec, [i \in Joints |-> Rat(i)] }

\* values of the frame counter's storage before the first increment
GarbageFrames == { 0, 7 }

\* joint angles the device reports
SampleVectors == { ZeroVec, [i \in Joints |-> Rat(i)] }

\* command torques a control law produces
TorqueVectors == { [i \in Joints |-> Rat(1)], [i \in Joints |-> Rat(0 - i)] }

\* return values of controlAllegroHand::Update()
Statuses == { 0, -1 }

\* wall-clock time between two readings of ros::Time::now()
Delays == { [sec |-> 0, nsec |-> 10000000], [sec |-> 1, nsec |-> 0] }

\* wall-clock time when the process starts
StartTime == [sec |-> 1, nsec |-> 992000000]

\* ------------------------------------------------------------------------
\* State
\* ------------------------------------------------------------------------

VARIABLES
  pc,                          \* position of the (single) main thread
  rosOk,                       \* ros::ok()
  timerStarted,                \* the ros::Timer of startTimerCallback is live
  canDevice,                   \* "null", "open" or "deleted"
  mutex,                       \* "null", "alloc" or "deleted"
  nh,                          \* node handle: "ok" or "shutdown"
  advertised,                  \* joint_state_pub has been advertised
  now,                         \* the wall clock
  tstart, tnow, dt,
  current_position, previous_position,
  current_position_filtered, previous_position_filtered,
  current_velocity, previous_velocity, current_velocity_filtered,
  desired_torque,
  lEmergencyStop,
  frame,
  msgJoint,
  ticks,                       \* number of timer callbacks fired so far
  log                          \* trace of the calls made so far

loopState ==
  << current_position, previous_position,
     current_position_filtered, previous_position_filtered,
     current_velocity, previous_velocity, current_velocity_filtered,
     desired_torque >>

timingState == << tstart, tnow, dt >>

lifeState == << rosOk, timerStarted, canDevice, mutex, nh, advertised >>

vars ==
  << pc, lifeState, now, timingState, loopState, lEmergencyStop, frame,
     msgJoint, ticks, log >>

\* the state-update message of a default-constructed sensor_msgs::JointState
EmptyMsg ==
  [stamp |-> [sec |-> 0, nsec |-> 0], position |-> << >>, velocity |-> << >>,
   effort |-> << >>, name |-> << >>]

\* Process start: the AllegroNode object's storage is allocated and nothing
\* has been written yet.  Members the constructor (or the first tick) writes
\* before any read are given a placeholder; members that are read before they
\* are written hold any value.
Init ==
  /\ pc = "ctor"
  /\ rosOk = TRUE
  /\ timerStarted = FALSE
  /\ canDevice = "null"
  /\ mutex = "null"
  /\ nh = "ok"
  /\ advertised = FALSE
  /\ now = StartTime
  /\ tstart = [sec |-> 0, nsec |-> 0]
  /\ tnow = [sec |-> 0, nsec |-> 0]
  /\ dt = Zero
  /\ current_position = ZeroVec
  /\ previous_position = ZeroVec
  /\ current_position_filtered \in GarbageVectors
  /\ previous_position_filtered = ZeroVec
  /\ current_velocity \in GarbageVectors
  /\ previous_velocity = ZeroVec
  /\ current_velocity_filtered \in GarbageVectors
  /\ desired_torque \in GarbageVectors
  /\ lEmergencyStop = 0
  /\ frame \in GarbageFrames
  /\ msgJoint = EmptyMsg
  /\ ticks = 0
  /\ log = << >>

\* ------------------------------------------------------------------------
\* Trace of calls
\* ------------------------------------------------------------------------

\* one entry of the trace: the call, the tick it was made in (0 before the
\* first timer callback) and its argument or result
Entry(op, arg) == [op |-> op, tick |-> ticks, arg |-> arg]

\* ------------------------------------------------------------------------
\* AllegroNode::updateWriteReadCAN
\* ------------------------------------------------------------------------

\* mutant: the emergency stop is detected but ros::shutdown() is not called
updateWriteReadCAN_noShutdown ==
  \E st \in Statuses, pos \in SampleVectors :
    /\ lEmergencyStop' = st
    /\ current_position' = pos
    /\ rosOk' = rosOk
    /\ log' = log \o << Entry("setTorque", desired_torque),
                        Entry("Update", st),
                        Entry("getJointInfo", pos) >>

\* mutant: the test is lEmergencyStop <= 0, so status 0 shuts down too
updateWriteReadCAN_stopOnZero ==
  \E st \in Statuses, pos \in SampleVectors :
    /\ lEmergencyStop' = st
    /\ current_position' = pos
    /\ rosOk' = IF st <= 0 THEN FALSE ELSE rosOk
    /\ log' = log \o << Entry("setTorque", desired_torque),
                        Entry("Update", st),
                        Entry("getJointInfo", pos) >>
                  \o (IF st <= 0 THEN << Entry("shutdown", st) >> ELSE << >>)

\* setTorque(desired_torque); lEmergencyStop = Update();
\* getJointInfo(current_position); ros::shutdown() when lEmergencyStop < 0;
\* the device reports one of the joint angle vectors of samples
transact(samples) ==
  \E st \in Statuses, pos \in samples :
    /\ lEmergencyStop' = st
    /\ current_position' = pos
    /\ rosOk' = IF st < 0 THEN FALSE ELSE rosOk
    /\ log' = log \o << Entry("setTorque", desired_torque),
                        Entry("Update", st),
                        Entry("getJointInfo", pos) >>
                  \o (IF st < 0 THEN << Entry("shutdown", st) >> ELSE << >>)

\* AllegroNode::updateWriteReadCAN with any joint angles the device reports
updateWriteReadCAN == transact(SampleVectors)

\* ------------------------------------------------------------------------
\* AllegroNode::publishData
\* ------------------------------------------------------------------------

\* mutant: the raw finite difference is published as velocity
publishedMsg_rawVelocity ==
  [stamp    |-> tnow,
   position |-> [i \in Joints |-> current_position_filtered[i]],
   velocity |-> [i \in Joints |-> current_velocity[i]],
   effort   |-> [i \in Joints |-> desired_torque[i]],
   name     |-> msgJoint.name]

\* mutant: the raw position is published as position
publishedMsg_rawPosition ==
  [stamp    |-> tnow,
   position |-> [i \in Joints |-> current_position[i]],
   velocity |-> [i \in Joints |-> current_velocity_filtered[i]],
   effort   |-> [i \in Joints |-> desired_torque[i]],
   name     |-> msgJoint.name]

\* the message publishData fills and hands to joint_state_pub.publish
publishedMsg ==
  [stamp    |-> tnow,
   position |-> [i \in Joints |-> current_position_filtered[i]],
   velocity |-> [i \in Joints |-> current_velocity_filtered[i]],
   effort   |-> [i \in Joints |-> desired_torque[i]],
   name     |-> msgJoint.name]

publishData ==
  /\ msgJoint' = publishedMsg
  /\ log' = Append(log, Entry("publish", publishedMsg))

\* ------------------------------------------------------------------------
\* AllegroNode::AllegroNode
\* ------------------------------------------------------------------------

\* mutant: desired_torque is not zeroed by the constructor
Ctor_noZeroTorque ==
  /\ pc = "ctor"
  /\ pc' = "ctor_can"
  /\ mutex' = "alloc"
  /\ msgJoint' = [stamp    |-> msgJoint.stamp,
                  position |-> ZeroVec,
                  velocity |-> ZeroVec,
                  effort   |-> ZeroVec,
                  name     |-> [i \in Joints |-> jointNames[i]]]
  /\ current_velocity' = [i \in Joints |-> Zero]
  /\ UNCHANGED << rosOk, timerStarted, canDevice, nh, advertised, now,
                  timingState, current_position, previous_position,
                  current_position_filtered, previous_position_filtered,
                  previous_velocity, current_velocity_filtered,
                  desired_torque, lEmergencyStop, frame, ticks, log >>

\* mutant: the names are bound one position off (jointNames[i + 1])
Ctor_namesShifted ==
  /\ pc = "ctor"
  /\ pc' = "ctor_can"
  /\ mutex' = "alloc"
  /\ msgJoint' = [stamp    |-> msgJoint.stamp,
                  position |-> ZeroVec,
                  velocity |-> ZeroVec,
                  effort   |-> ZeroVec,
                  name     |-> [i \in Joints |->
                                 jointNames[(i % DOF_JOINTS) + 1]]]
  /\ desired_torque' = [i \in Joints |-> Zero]
  /\ current_velocity' = [i \in Joints |-> Zero]
  /\ UNCHANGED << rosOk, timerStarted, canDevice, nh, advertised, now,
                  timingState, current_position, previous_position,
                  current_position_filtered, previous_position_filtered,
                  previous_velocity, current_velocity_filtered,
                  lEmergencyStop, frame, ticks, log >>

\* lines 20-45: allocate the mutex, size the message, bind the joint names,
\* zero desired_torque and current_velocity, read the hand_info parameters
Ctor ==
  /\ pc = "ctor"
  /\ pc' = "ctor_can"
  /\ mutex' = "alloc"
  /\ msgJoint' = [stamp    |-> msgJoint.stamp,
                  position |-> ZeroVec,
                  velocity |-> ZeroVec,
                  effort   |-> ZeroVec,
                  name     |-> [i \in Joints |-> jointNames[i]]]
  /\ desired_torque' = [i \in Joints |-> Zero]
  /\ current_velocity' = [i \in Joints |-> Zero]
  /\ UNCHANGED << rosOk, timerStarted, canDevice, nh, advertised, now,
                  timingState, current_position, previous_position,
                  current_position_filtered, previous_position_filtered,
                  previous_velocity, current_velocity_filtered,
                  lEmergencyStop, frame, ticks, log >>

\* mutant: the settle delay is skipped
CtorCanInit_noSettle ==
  /\ pc = "ctor_can"
  /\ pc' = "ctor_prime"
  /\ canDevice' = "open"
  /\ log' = Append(log, Entry("init", 0))
  /\ UNCHANGED << rosOk, timerStarted, mutex, nh, advertised, now,
                  timingState, loopState, lEmergencyStop, frame, msgJoint,
                  ticks >>

\* canDevice = new controlAllegroHand(); canDevice->init();
CtorCanInit ==
  /\ pc = "ctor_can"
  /\ pc' = "ctor_usleep"
  /\ canDevice' = "open"
  /\ log' = Append(log, Entry("init", 0))
  /\ UNCHANGED << rosOk, timerStarted, mutex, nh, advertised, now,
                  timingState, loopState, lEmergencyStop, frame, msgJoint,
                  ticks >>

\* usleep(3000);
CtorUsleep ==
  /\ pc = "ctor_usleep"
  /\ pc' = "ctor_prime"
  /\ now' = TimeAdd(now, [sec |-> 0, nsec |-> SETTLE_USEC * 1000])
  /\ log' = Append(log, Entry("usleep", SETTLE_USEC))
  /\ UNCHANGED << lifeState, timingState, loopState, lEmergencyStop, frame,
                  msgJoint, ticks >>

\* updateWriteReadCAN();  (the priming transaction)
CtorPrime ==
  /\ pc = "ctor_prime"
  /\ pc' = "ctor_tstart"
  /\ updateWriteReadCAN
  /\ UNCHANGED << timerStarted, canDevice, mutex, nh, advertised, now,
                  timingState, previous_position, current_position_filtered,
                  previous_position_filtered, current_velocity,
                  previous_velocity, current_velocity_filtered,
                  desired_torque, frame, msgJoint, ticks >>

\* tstart = ros::Time::now();
CtorTstart ==
  /\ pc = "ctor_tstart"
  /\ pc' = "ctor_advertise"
  /\ tstart' = now
  /\ log' = Append(log, Entry("tstart", now))
  /\ UNCHANGED << lifeState, now, tnow, dt, loopState, lEmergencyStop,
                  frame, msgJoint, ticks >>

\* joint_state_pub = nh.advertise<sensor_msgs::JointState>(...);
CtorAdvertise ==
  /\ pc = "ctor_advertise"
  /\ pc' = "constructed"
  /\ advertised' = TRUE
  /\ UNCHANGED << rosOk, timerStarted, canDevice, mutex, nh, now,
                  timingState, loopState, lEmergencyStop, frame, msgJoint,
                  ticks, log >>

\* ------------------------------------------------------------------------
\* AllegroNode::startTimerCallback and AllegroNode::timerCallback
\* ------------------------------------------------------------------------

\* the caller starts the periodic scheduler on the constructed node
startTimerCallback ==
  /\ pc = "constructed"
  /\ pc' = "spin"
  /\ timerStarted' = TRUE
  /\ log' = Append(log, Entry("createTimer", 0))
  /\ UNCHANGED << rosOk, canDevice, mutex, nh, advertised, now, timingState,
                  loopState, lEmergencyStop, frame, msgJoint, ticks >>

\* mutant: the callback is also dispatched while a callback is running (a
\* multi-threaded spinner)
timerCallback_reentrant ==
  /\ pc \in { "spin", "uc_time", "uc_save", "uc_can", "uc_filter",
               "uc_compute", "uc_publish", "uc_frame" }
  /\ rosOk
  /\ timerStarted
  /\ ticks < MaxTicks
  /\ pc' = "uc_time"
  /\ ticks' = ticks + 1
  /\ log' = Append(log, [op |-> "tick", tick |-> ticks + 1, arg |-> 0])
  /\ UNCHANGED << lifeState, now, timingState, loopState, lEmergencyStop,
                  frame, msgJoint >>

\* the single-threaded spinner invokes the timer callback: only between
\* callbacks, only while ros::ok() and while the timer is live
timerCallback ==
  /\ pc = "spin"
  /\ rosOk
  /\ timerStarted
  /\ ticks < MaxTicks
  /\ pc' = "uc_time"
  /\ ticks' = ticks + 1
  /\ log' = Append(log, [op |-> "tick", tick |-> ticks + 1, arg |-> 0])
  /\ UNCHANGED << lifeState, now, timingState, loopState, lEmergencyStop,
                  frame, msgJoint >>

\* ------------------------------------------------------------------------
\* AllegroNode::updateController
\* ------------------------------------------------------------------------

\* tnow = ros::Time::now(); dt = 1e-9 * (tnow - tstart).nsec; tstart = tnow;
ucTime ==
  /\ pc = "uc_time"
  /\ pc' = "uc_save"
  /\ \E d \in Delays :
       /\ now' = TimeAdd(now, d)
       /\ tnow' = now'
       /\ dt' = Mul(<< 1, NSEC_PER_SEC >>, Rat(TimeSub(now', tstart).nsec))
       /\ tstart' = now'
       /\ log' = Append(log, Entry("now", now'))
  /\ UNCHANGED << lifeState, loopState, lEmergencyStop, frame, msgJoint,
                  ticks >>

\* mutant: the raw position is not archived
ucSave_noPosition ==
  /\ pc = "uc_save"
  /\ pc' = "uc_can"
  /\ previous_position_filtered' =
       [i \in Joints |-> current_position_filtered[i]]
  /\ previous_velocity' = [i \in Joints |-> current_velocity[i]]
  /\ UNCHANGED << lifeState, now, timingState, current_position,
                  previous_position, current_position_filtered,
                  current_velocity, current_velocity_filtered,
                  desired_torque, lEmergencyStop, frame, msgJoint, ticks,
                  log >>

\* mutant: the raw velocity is not archived
ucSave_noVelocity ==
  /\ pc = "uc_save"
  /\ pc' = "uc_can"
  /\ previous_position' = [i \in Joints |-> current_position[i]]
  /\ previous_position_filtered' =
       [i \in Joints |-> current_position_filtered[i]]
  /\ UNCHANGED << lifeState, now, timingState, current_position,
                  current_position_filtered, current_velocity,
                  previous_velocity, current_velocity_filtered,
                  desired_torque, lEmergencyStop, frame, msgJoint, ticks,
                  log >>

\* save last iteration info
ucSave ==
  /\ pc = "uc_save"
  /\ pc' = "uc_can"
  /\ previous_position' = [i \in Joints |-> current_position[i]]
  /\ previous_position_filtered' =
       [i \in Joints |-> current_position_filtered[i]]
  /\ previous_velocity' = [i \in Joints |-> current_velocity[i]]
  /\ UNCHANGED << lifeState, now, timingState, current_position,
                  current_position_filtered, current_velocity,
                  current_velocity_filtered, desired_torque, lEmergencyStop,
                  frame, msgJoint, ticks, log >>

\* updateWriteReadCAN();
ucCan ==
  /\ pc = "uc_can"
  /\ pc' = "uc_filter"
  /\ updateWriteReadCAN
  /\ UNCHANGED << timerStarted, canDevice, mutex, nh, advertised, now,
                  timingState, previous_position, current_position_filtered,
                  previous_position_filtered, current_velocity,
                  previous_velocity, current_velocity_filtered,
                  desired_torque, frame, msgJoint, ticks >>

\* mutant: the coefficients are "corrected" to sum to 1 (0.6, 0.2, 0.2)
filteredPosition_unitGain(i) ==
  Add(Add(Mul(COEF_A, current_position_filtered[i]),
          Mul(<< 1, 5 >>, previous_position[i])),
      Mul(<< 1, 5 >>, current_position[i]))

\* line 107: the new filtered position of joint i
filteredPosition(i) ==
  Add(Add(Mul(COEF_A, current_position_filtered[i]),
          Mul(COEF_B, previous_position[i])),
      Mul(COEF_B, current_position[i]))

\* line 110: the velocity derived from the filtered position
velocityFromFiltered(i) ==
  Div(Sub(filteredPosition(i), previous_position_filtered[i]), dt)

\* line 112: the new filtered velocity of joint i
filteredVelocity(i) ==
  Add(Add(Mul(COEF_A, current_velocity_filtered[i]),
          Mul(COEF_B, previous_velocity[i])),
      Mul(COEF_B, velocityFromFiltered(i)))

\* line 115: the raw finite difference, final value of current_velocity
rawVelocity(i) ==
  Div(Sub(current_position[i], previous_position[i]), dt)

\* mutant: line 115 is missing, current_velocity keeps the velocity derived
\* from the filtered position
ucFilter_noRawOverwrite ==
  /\ pc = "uc_filter"
  /\ pc' = "uc_compute"
  /\ current_position_filtered' = [i \in Joints |-> filteredPosition(i)]
  /\ current_velocity_filtered' = [i \in Joints |-> filteredVelocity(i)]
  /\ current_velocity' = [i \in Joints |-> velocityFromFiltered(i)]
  /\ log' = Append(log, Entry("filter", current_position_filtered'))
  /\ UNCHANGED << lifeState, now, timingState, current_position,
                  previous_position, previous_position_filtered,
                  previous_velocity, desired_torque, lEmergencyStop, frame,
                  msgJoint, ticks >>

\* Low-pass filtering.
ucFilter ==
  /\ pc = "uc_filter"
  /\ pc' = "uc_compute"
  /\ current_position_filtered' = [i \in Joints |-> filteredPosition(i)]
  /\ current_velocity_filtered' = [i \in Joints |-> filteredVelocity(i)]
  /\ current_velocity' = [i \in Joints |-> rawVelocity(i)]
  /\ log' = Append(log, Entry("filter", current_position_filtered'))
  /\ UNCHANGED << lifeState, now, timingState, current_position,
                  previous_position, previous_position_filtered,
                  previous_velocity, desired_torque, lEmergencyStop, frame,
                  msgJoint, ticks >>

\* computeDesiredTorque(): the pure virtual hook; a control law leaves any
\* torque vector in desired_torque
computeDesiredTorque ==
  \E u \in TorqueVectors :
    /\ desired_torque' = u
    /\ log' = Append(log, Entry("computeDesiredTorque", u))

ucCompute ==
  /\ pc = "uc_compute"
  /\ pc' = "uc_publish"
  /\ computeDesiredTorque
  /\ UNCHANGED << lifeState, now, timingState, current_position,
                  previous_position, current_position_filtered,
                  previous_position_filtered, current_velocity,
                  previous_velocity, current_velocity_filtered,
                  lEmergencyStop, frame, msgJoint, ticks >>

\* publishData();
ucPublish ==
  /\ pc = "uc_publish"
  /\ pc' = "uc_frame"
  /\ publishData
  /\ UNCHANGED << lifeState, now, timingState, loopState, lEmergencyStop,
                  frame, ticks >>

\* mutant: the counter is advanced by two
ucFrame_twice ==
  /\ pc = "uc_frame"
  /\ pc' = "spin"
  /\ frame' = frame + 2
  /\ log' = Append(log, Entry("frame", frame + 2))
  /\ UNCHANGED << lifeState, now, timingState, loopState, lEmergencyStop,
                  msgJoint, ticks >>

\* frame++; and the callback returns to the spinner
ucFrame ==
  /\ pc = "uc_frame"
  /\ pc' = "spin"
  /\ frame' = frame + 1
  /\ log' = Append(log, Entry("frame", frame + 1))
  /\ UNCHANGED << lifeState, now, timingState, loopState, lEmergencyStop,
                  msgJoint, ticks >>

\* ------------------------------------------------------------------------
\* Shutdown
\* ------------------------------------------------------------------------

\* an external shutdown request (SIGINT, rosnode kill): ros::ok() turns false
ExternalShutdown ==
  /\ rosOk
  /\ pc # "done"
  /\ rosOk' = FALSE
  /\ UNCHANGED << pc, timerStarted, canDevice, mutex, nh, advertised, now,
                  timingState, loopState, lEmergencyStop, frame, msgJoint,
                  ticks, log >>

\* ros::spin() returns once ros::ok() is false; the caller's timer handle
\* goes out of scope and the node is destroyed
SpinExit ==
  /\ pc = "spin"
  /\ ~rosOk
  /\ pc' = "dtor"
  /\ timerStarted' = FALSE
  /\ log' = Append(log, Entry("stopTimer", 0))
  /\ UNCHANGED << rosOk, canDevice, mutex, nh, advertised, now, timingState,
                  loopState, lEmergencyStop, frame, msgJoint, ticks >>

\* mutant: the destructor does not delete canDevice
DtorCan_noDelete ==
  /\ pc = "dtor"
  /\ pc' = "dtor_mutex"
  /\ UNCHANGED << lifeState, now, timingState, loopState, lEmergencyStop,
                  frame, msgJoint, ticks, log >>

\* ~AllegroNode: delete canDevice;
DtorCan ==
  /\ pc = "dtor"
  /\ pc' = "dtor_mutex"
  /\ canDevice' = "deleted"
  /\ log' = Append(log, Entry("deleteCanDevice", 0))
  /\ UNCHANGED << rosOk, timerStarted, mutex, nh, advertised, now,
                  timingState, loopState, lEmergencyStop, frame, msgJoint,
                  ticks >>

\* ~AllegroNode: delete mutex;
DtorMutex ==
  /\ pc = "dtor_mutex"
  /\ pc' = "dtor_nh"
  /\ mutex' = "deleted"
  /\ UNCHANGED << rosOk, timerStarted, canDevice, nh, advertised, now,
                  timingState, loopState, lEmergencyStop, frame, msgJoint,
                  ticks, log >>

\* ~AllegroNode: nh.shutdown();
DtorNh ==
  /\ pc = "dtor_nh"
  /\ pc' = "done"
  /\ nh' = "shutdown"
  /\ advertised' = FALSE
  /\ UNCHANGED << rosOk, timerStarted, canDevice, mutex, now, timingState,
                  loopState, lEmergencyStop, frame, msgJoint, ticks, log >>

\* ------------------------------------------------------------------------
\* Specifications
\* ------------------------------------------------------------------------

\* the steps of the main thread
MainStep ==
  \/ Ctor
  \/ CtorCanInit
  \/ CtorUsleep
  \/ CtorPrime
  \/ CtorTstart
  \/ CtorAdvertise
  \/ startTimerCallback
  \/ timerCallback
  \/ ucTime
  \/ ucSave
  \/ ucCan
  \/ ucFilter
  \/ ucCompute
  \/ ucPublish
  \/ ucFrame
  \/ SpinExit
  \/ DtorCan
  \/ DtorMutex
  \/ DtorNh

Next == MainStep \/ ExternalShutdown

Spec == Init /\ [][Next]_vars

\* the positions of the main thread
PcValues ==
  { "ctor", "ctor_can", "ctor_usleep", "ctor_prime", "ctor_tstart",
    "ctor_advertise", "constructed", "spin", "uc_time", "uc_save", "uc_can",
    "uc_filter", "uc_compute", "uc_publish", "uc_frame", "dtor",
    "dtor_mutex", "dtor_nh", "done" }

\* the main thread moves on: it is the steps of MainStep other than the
\* dispatch of a timer callback, seen as a change of pc.  The thread has
\* such a step at every position except "done" and the spinner's wait while
\* ros::ok() holds.
MainMove ==
  /\ pc # "done"
  /\ pc = "spin" => ~rosOk
  /\ \E q \in PcValues \ { pc } : pc' = q

\* the main thread keeps running: a call it makes returns, a callback runs
\* to completion, and ros::spin() returns once ros::ok() is false
FairSpec == Spec /\ WF_pc(MainMove)

\* ------------------------------------------------------------------------
\* The node on a device that reports the same angle on every joint, with
\* filter storage that happens to hold zero at construction
\* ------------------------------------------------------------------------

\* joint angles of the scenario: 0, 1 or 2 on every joint
UniformSamples ==
  { ZeroVec, [i \in Joints |-> Rat(1)], [i \in Joints |-> Rat(2)] }

ScenarioInit ==
  /\ Init
  /\ current_position_filtered = ZeroVec
  /\ current_velocity_filtered = ZeroVec

\* the priming transaction of the constructor on that device
ScenarioPrime ==
  /\ pc = "ctor_prime"
  /\ pc' = "ctor_tstart"
  /\ transact(UniformSamples)
  /\ UNCHANGED << timerStarted, canDevice, mutex, nh, advertised, now,
                  timingState, previous_position, current_position_filtered,
                  previous_position_filtered, current_velocity,
                  previous_velocity, current_velocity_filtered,
                  desired_torque, frame, msgJoint, ticks >>

\* the transaction of a tick on that device
ScenarioCan ==
  /\ pc = "uc_can"
  /\ pc' = "uc_filter"
  /\ transact(UniformSamples)
  /\ UNCHANGED << timerStarted, canDevice, mutex, nh, advertised, now,
                  timingState, previous_position, current_position_filtered,
                  previous_position_filtered, current_velocity,
                  previous_velocity, current_velocity_filtered,
                  desired_torque, frame, msgJoint, ticks >>

ScenarioNext ==
  \/ Ctor
  \/ CtorCanInit
  \/ CtorUsleep
  \/ ScenarioPrime
  \/ CtorTstart
  \/ CtorAdvertise
  \/ startTimerCallback
  \/ timerCallback
  \/ ucTime
  \/ ucSave
  \/ ScenarioCan
  \/ ucFilter
  \/ ucCompute
  \/ ucPublish
  \/ ucFrame
  \/ SpinExit
  \/ DtorCan
  \/ DtorMutex
  \/ DtorNh
  \/ ExternalShutdown

ScenarioSpec == ScenarioInit /\ [][ScenarioNext]_vars

\* ------------------------------------------------------------------------
\* Reading the trace
\* ------------------------------------------------------------------------

\* positions in the trace of the calls named op
Idx(op) == { k \in DOMAIN log : log[k].op = op }

\* positions in the trace of the calls named op made in tick n
IdxAt(op, n) == { k \in DOMAIN log : log[k].op = op /\ log[k].tick = n }

\* positions of the device transactions that returned a negative status
Faults == { k \in Idx("Update") : log[k].arg < 0 }

\* the main thread is inside updateController
InTick ==
  pc \in { "uc_time", "uc_save", "uc_can", "uc_filter", "uc_compute",
           "uc_publish", "uc_frame" }

\* number of ticks that have run their last step
TicksDone == Cardinality(Idx("frame"))


\* ------------------------------------------------------------------------
\* Properties
\* ------------------------------------------------------------------------

\* C1: once a device transaction has returned a negative status, publishData
\* is never executed again: neither in the rest of that tick nor later.
C1_NoPublishAfterFault ==
  \A k \in Faults : \A j \in Idx("publish") : j < k

\* C2: after a device transaction has returned a negative status the timer
\* callback never fires again and no further setTorque/Update/getJointInfo
\* is issued (the getJointInfo of the faulted transaction itself is the
\* entry right after its Update).
C2_NoRetryAfterFault ==
  \A k \in Faults :
    /\ \A j \in Idx("tick") : j < k
    /\ \A j \in Idx("setTorque") \cup Idx("Update") : j <= k
    /\ \A j \in Idx("getJointInfo") : j <= k + 1

\* C2 witness: the run has ended after a fault in the first tick although
\* the scheduler could have fired again.
C2_Witness ==
  /\ pc = "done"
  /\ ticks = 1
  /\ ticks < MaxTicks
  /\ \E k \in Faults : log[k].tick = 1

\* C3: every transaction with a negative status calls ros::shutdown() before
\* updateWriteReadCAN returns (priming transaction and ticks alike), and a
\* transaction with status >= 0 does not.
C3_FaultRequestsShutdown ==
  /\ \A k \in Idx("Update") :
       /\ k + 1 \in Idx("getJointInfo")
       /\ (log[k].arg < 0) <=> (k + 2 \in Idx("shutdown"))
       /\ (log[k].arg < 0) => ~rosOk
  /\ \A j \in Idx("shutdown") : j > 2 /\ (j - 2) \in Faults

\* C3 witness: a fault in the second tick, after a successful priming
\* transaction and a successful first tick, has requested shutdown.
C3_Witness ==
  /\ \E k \in Faults : log[k].tick = 2 /\ (k + 2) \in Idx("shutdown")
  /\ \A k \in Idx("Update") : log[k].tick < 2 => log[k].arg >= 0

\* the messages handed to joint_state_pub.publish so far, oldest first
Published ==
  LET P == SelectSeq(log, LAMBDA e : e.op = "publish")
  IN  [k \in DOMAIN P |-> P[k].arg]

\* the tick whose transaction succeeded has just published
JustPublished == pc = "uc_frame" /\ lEmergencyStop >= 0

C5_OneMessagePerTick ==
  \A n \in 1..ticks :
    (\E k \in IdxAt("Update", n) : log[k].arg >= 0) =>
      /\ Cardinality(IdxAt("publish", n)) <= 1
      /\ IdxAt("frame", n) # {} => Cardinality(IdxAt("publish", n)) = 1
      /\ \A p \in IdxAt("publish", n) :
           /\ Cardinality(IdxAt("filter", n)) = 1
           /\ Cardinality(IdxAt("computeDesiredTorque", n)) = 1
           /\ Cardinality(IdxAt("now", n)) = 1
           /\ \A f \in IdxAt("filter", n) : log[p].arg.position = log[f].arg
           /\ \A c \in IdxAt("computeDesiredTorque", n) :
                log[p].arg.effort = log[c].arg
           /\ \A t \in IdxAt("now", n) : log[p].arg.stamp = log[t].arg

\* C5 witness: two successful ticks have completed and two messages with
\* different stamps have been published.
C5_Witness ==
  /\ pc = "spin"
  /\ ticks = 2
  /\ \A k \in Idx("Update") : log[k].arg >= 0
  /\ Len(Published) = 2
  /\ Published[1].stamp # Published[2].stamp
  /\ Published[1].position # Published[2].position

\* C6: the torque handed to the device by the priming transaction and by the
\* first tick is all-zero; the torque handed to the device in tick n + 1 is
\* the vector computeDesiredTorque produced in tick n, which is the effort
\* tick n published; computeDesiredTorque runs at most once in a tick (once
\* when the tick has completed), after the tick's transaction and filter
\* update.
C6_StaleCommand ==
  /\ \A k \in Idx("setTorque") :
       /\ log[k].tick <= 1 => log[k].arg = ZeroVec
       /\ log[k].tick >= 2 =>
            /\ Cardinality(IdxAt("computeDesiredTorque", log[k].tick - 1)) = 1
            /\ Cardinality(IdxAt("publish", log[k].tick - 1)) = 1
            /\ \A c \in IdxAt("computeDesiredTorque", log[k].tick - 1) :
                 log[k].arg = log[c].arg
            /\ \A p \in IdxAt("publish", log[k].tick - 1) :
                 log[k].arg = log[p].arg.effort
  /\ IdxAt("computeDesiredTorque", 0) = {}
  /\ \A n \in 1..ticks :
       /\ Cardinality(IdxAt("computeDesiredTorque", n)) <= 1
       /\ IdxAt("frame", n) # {} =>
            Cardinality(IdxAt("computeDesiredTorque", n)) = 1
       /\ \A c \in IdxAt("computeDesiredTorque", n) :
            /\ \E g \in IdxAt("getJointInfo", n) : g < c
            /\ \E f \in IdxAt("filter", n) : f < c

\* C6 witness: the transaction of the second tick has carried the non-zero
\* torque computed in the first tick, and the second tick has computed a
\* different one.
C6_Witness ==
  /\ pc = "uc_publish"
  /\ ticks = 2
  /\ \E k \in IdxAt("setTorque", 2) :
       /\ log[k].arg # ZeroVec
       /\ log[k].arg # desired_torque

\* C7: from the end of construction until the first tick updates them, the
\* command torque, the raw velocity and the filtered velocity of every joint
\* are zero.
C7_ZeroUntilFirstTick ==
  (pc \in { "constructed", "spin" } /\ ticks = 0) =>
    \A i \in Joints :
      /\ desired_torque[i] = Zero
      /\ current_velocity[i] = Zero
      /\ current_velocity_filtered[i] = Zero

\* C8: the device is initialised, then the settle delay elapses, then
\* exactly one priming transaction is performed, then tstart is set, and only
\* then is the scheduler started; no tick runs before the priming transaction
\* has completed.
C8_StartupOrder ==
  /\ Cardinality(Idx("init")) <= 1
  /\ Cardinality(Idx("usleep")) <= 1
  /\ Cardinality(IdxAt("Update", 0)) <= 1
  /\ Cardinality(Idx("tstart")) <= 1
  /\ Cardinality(Idx("createTimer")) <= 1
  /\ \A u \in Idx("usleep") : \E a \in Idx("init") : a < u
  /\ \A k \in Idx("setTorque") : \E u \in Idx("usleep") : u < k
  /\ \A t \in Idx("tstart") :
       /\ Cardinality(IdxAt("Update", 0)) = 1
       /\ \E g \in IdxAt("getJointInfo", 0) : g < t
       /\ \A x \in Idx("shutdown") : log[x].tick = 0 => x < t
  /\ \A c \in Idx("createTimer") : \E t \in Idx("tstart") : t < c
  /\ \A k \in DOMAIN log :
       log[k].tick >= 1 => \E c \in Idx("createTimer") : c < k
  /\ timerStarted => Idx("createTimer") # {}
  /\ InTick => \E g \in IdxAt("getJointInfo", 0) : TRUE

\* C8 witness: the scheduler has been started and a tick is running.
C8_Witness ==
  /\ timerStarted
  /\ pc = "uc_can"
  /\ ticks = 1
  /\ Cardinality(IdxAt("Update", 0)) = 1
  /\ tstart # [sec |-> 0, nsec |-> 0]

\* the calls made on the device transport so far
CanCalls ==
  SelectSeq(log, LAMBDA e : e.op \in { "setTorque", "Update", "getJointInfo" })

\* the scheduler is stopped, the transport is closed, the owned state is
\* released
TornDown ==
  /\ pc = "done"
  /\ ~timerStarted
  /\ canDevice = "deleted"
  /\ mutex = "deleted"
  /\ nh = "shutdown"

\* C9: after an emergency stop or an external shutdown request (ros::ok()
\* false) the node is eventually torn down, and once the device transport has
\* been closed no tick runs and no transaction is issued.
C9_ShutdownTearsDown ==
  /\ (~rosOk) ~> TornDown
  /\ [][canDevice = "deleted" =>
          /\ ~InTick'
          /\ ticks' = ticks
          /\ CanCalls' = CanCalls
          /\ canDevice' = "deleted"]_vars

\* C9 witness: the node has been torn down after an emergency stop in a tick.
C9_Witness ==
  /\ TornDown
  /\ \E k \in Faults : log[k].tick >= 1

Affine(filtered, previousRaw, raw) ==
  Add(Add(Mul(<< 6, 10 >>, filtered), Mul(<< 198, 1000 >>, previousRaw)),
      Mul(<< 198, 1000 >>, raw))

\* C11: in every tick the new filtered position of every joint is
\* 0.6 * (filtered position before the tick) + 0.198 * (raw position before
\* the tick) + 0.198 * (raw position sampled in the tick), whatever dt, the
\* velocities and the torque are: it is that function of the values the
\* previous tick left (its filter result and its sample) and of this tick's
\* sample, and of the archived values while the tick runs.
C11_FilteredPositionAffine ==
  /\ \A n \in 2..ticks :
       \A f \in IdxAt("filter", n) :
         /\ Cardinality(IdxAt("filter", n - 1)) = 1
         /\ Cardinality(IdxAt("getJointInfo", n - 1)) = 1
         /\ Cardinality(IdxAt("getJointInfo", n)) = 1
         /\ \A f0 \in IdxAt("filter", n - 1) :
              \A g0 \in IdxAt("getJointInfo", n - 1) :
                \A g \in IdxAt("getJointInfo", n) :
                  \A i \in Joints :
                    log[f].arg[i] =
                      Affine(log[f0].arg[i], log[g0].arg[i], log[g].arg[i])
  /\ pc \in { "uc_compute", "uc_publish", "uc_frame" } =>
       \A i \in Joints :
         current_position_filtered[i] =
           Affine(previous_position_filtered[i], previous_position[i],
                  current_position[i])

\* C11 witness: the filter of the second successful tick has run with a zero
\* dt, a non-zero torque and a filtered position that changed.
C11_Witness ==
  /\ pc = "uc_compute"
  /\ ticks = 2
  /\ lEmergencyStop >= 0
  /\ dt = Zero
  /\ desired_torque # ZeroVec
  /\ \E i \in Joints :
       /\ IsFinite(current_position_filtered[i])
       /\ current_position_filtered[i] # previous_position_filtered[i]
       /\ current_position[i] # previous_position[i]

\* the vector with the decimal n / d on every joint
Uniform(n, d) == [i \in Joints |-> Norm(n, d)]

\* dt = 0.01 s
TenMs == [sec |-> 0, nsec |-> 10000000]

\* the first n ticks ran the scenario: priming sample 0 on every joint, then
\* the samples 1, 2, ... on successive ticks, 0.01 s after the previous
\* reading of the clock, the filter of each of them having run
ScenarioRan(n) ==
  /\ \E g \in IdxAt("getJointInfo", 0) : log[g].arg = ZeroVec
  /\ \A m \in 1..n :
       /\ \E g \in IdxAt("getJointInfo", m) : log[g].arg = Uniform(m, 1)
       /\ IdxAt("filter", m) # {}
       /\ \E t \in IdxAt("now", m) :
            \E t0 \in (IF m = 1 THEN Idx("tstart") ELSE IdxAt("now", m - 1)) :
              TimeSub(log[t].arg, log[t0].arg) = TenMs

CanonicalNames ==
  << "index_joint_0", "index_joint_1", "index_joint_2", "index_joint_3",
     "middle_joint_0", "middle_joint_1", "middle_joint_2", "middle_joint_3",
     "ring_joint_0", "ring_joint_1", "ring_joint_2", "ring_joint_3",
     "thumb_joint_0", "thumb_joint_1", "thumb_joint_2", "thumb_joint_3" >>

\* C13: in every state after the constructor has bound the names, and in
\* every published message, the name array is the 16 canonical names in
\* canonical order: no step of the loop, of a transaction, of publication or
\* of shutdown changes it.
C13_JointNames ==
  /\ Len(CanonicalNames) = 16
  /\ DOF_JOINTS = 16
  /\ pc # "ctor" => msgJoint.name = CanonicalNames
  /\ \A p \in Idx("publish") : log[p].arg.name = CanonicalNames

\* C13 witness: the node has published twice and has been torn down.
C13_Witness ==
  /\ pc = "done"
  /\ Len(Published) = 2
  /\ Published[2].name[16] = "thumb_joint_3"

\* C14: in a tick whose transaction returned a negative status none of the
\* later steps runs: no filter update, no computeDesiredTorque, no increment
\* of the tick counter.
C14_FaultTickStops ==
  \A k \in Faults :
    log[k].tick >= 1 =>
      /\ IdxAt("filter", log[k].tick) = {}
      /\ IdxAt("computeDesiredTorque", log[k].tick) = {}
      /\ IdxAt("frame", log[k].tick) = {}

\* the tick has computed its dt
DtComputed ==
  pc \in { "uc_save", "uc_can", "uc_filter", "uc_compute", "uc_publish",
          "uc_frame" }

\* C15: the dt the filter divides by is strictly positive in every tick.
C15_DtPositive ==
  DtComputed => (dt[1] > 0 /\ dt[2] > 0)

\* the length of a ros::Duration in seconds
DurationSec(d) == Add(Rat(d.sec), Norm(d.nsec, NSEC_PER_SEC))

\* the timestamp the tick in progress measures dt against: loop-start time
\* in the first tick, the previous tick's timestamp afterwards
PreviousStamp ==
  IF ticks = 1
  THEN log[CHOOSE k \in Idx("tstart") : TRUE].arg
  ELSE log[CHOOSE k \in IdxAt("now", ticks - 1) : TRUE].arg

\* C16: in every tick dt is the full wall-clock time in seconds between the
\* previous tick's timestamp (loop-start time in the first tick) and this
\* tick's timestamp, and the stored previous-tick timestamp is this tick's.
C16_DtIsElapsed ==
  DtComputed =>
    /\ dt = DurationSec(TimeSub(tnow, PreviousStamp))
    /\ tstart = tnow

\* the argument of the one call named op made in tick n
ArgAt(op, n) == log[CHOOSE k \in IdxAt(op, n) : TRUE].arg

\* the dt tick n computed: 1e-9 * the nsec field of the time since the
\* previous timestamp
DtOf(n) ==
  LET t0 == IF n = 1 THEN log[CHOOSE k \in Idx("tstart") : TRUE].arg
            ELSE ArgAt("now", n - 1)
  IN  Mul(<< 1, NSEC_PER_SEC >>, Rat(TimeSub(ArgAt("now", n), t0).nsec))

\* the tick has archived the previous values
Archived ==
  pc \in { "uc_can", "uc_filter", "uc_compute", "uc_publish", "uc_frame" }

\* C17: from the moment the transaction of tick N is issued to the end of
\* tick N, previous_position is the raw position sampled by tick N-1 (by the
\* priming transaction for the first tick), previous_position_filtered is the
\* filtered position tick N-1 left and previous_velocity is the raw finite
\* difference tick N-1 left (zero for the first tick); when the transaction
\* is issued the three slots equal their current counterparts.
C17_PreviousIsArchived ==
  Archived =>
    /\ Cardinality(IdxAt("getJointInfo", ticks - 1)) = 1
    /\ previous_position = ArgAt("getJointInfo", ticks - 1)
    /\ ticks = 1 => previous_velocity = ZeroVec
    /\ ticks >= 2 =>
         /\ Cardinality(IdxAt("filter", ticks - 1)) = 1
         /\ previous_position_filtered = ArgAt("filter", ticks - 1)
         /\ \A i \in Joints :
              previous_velocity[i] =
                Div(Sub(ArgAt("getJointInfo", ticks - 1)[i],
                        ArgAt("getJointInfo", ticks - 2)[i]),
                    DtOf(ticks - 1))
    /\ pc = "uc_can" =>
         /\ previous_position = current_position
         /\ previous_position_filtered = current_position_filtered
         /\ previous_velocity = current_velocity

\* C17 witness: the second tick has sampled a new raw position and the
\* archived values are those of the first tick.
C17_Witness ==
  /\ pc = "uc_filter"
  /\ ticks = 2
  /\ previous_position # current_position
  /\ \E i \in Joints :
       /\ IsFinite(previous_velocity[i])
       /\ previous_velocity[i] # Zero
       /\ previous_position_filtered[i] # Zero

\* C18: after the filter step of a tick, current_velocity of every joint is
\* the raw finite difference (rawPosition - previousRawPosition) / dt, and
\* the filtered velocity is 0.6 * (filtered velocity before the tick, which
\* the previous tick published) + 0.198 * (previous raw velocity) + 0.198 *
\* ((new filtered position - previous filtered position) / dt).
C18_FilteredVelocity ==
  /\ pc \in { "uc_compute", "uc_publish", "uc_frame" } =>
       \A i \in Joints :
         current_velocity[i] =
           Div(Sub(current_position[i], previous_position[i]), dt)
  /\ (pc \in { "uc_compute", "uc_publish" } /\ ticks >= 2) =>
       \A i \in Joints :
         current_velocity_filtered[i] =
           Affine(msgJoint.velocity[i], previous_velocity[i],
                  Div(Sub(current_position_filtered[i],
                          previous_position_filtered[i]), dt))

\* C18 witness: the filter of the second successful tick has run, and for
\* some joint the raw difference in current_velocity differs from the
\* velocity derived from the filtered position.
C18_Witness ==
  /\ pc = "uc_compute"
  /\ ticks = 2
  /\ lEmergencyStop >= 0
  /\ \E i \in Joints :
       /\ IsFinite(current_velocity[i])
       /\ IsFinite(current_velocity_filtered[i])
       /\ current_velocity[i] #
            Div(Sub(current_position_filtered[i],
                    previous_position_filtered[i]), dt)

\* the values the tick counter has taken after each increment, oldest first
FrameLog ==
  LET F == SelectSeq(log, LAMBDA e : e.op = "frame")
  IN  [k \in DOMAIN F |-> F[k].arg]

\* C19: the tick counter never decreases; it changes only by the increment
\* that is the last step of a tick, after that tick's publication, and by
\* exactly one; between ticks it has been incremented exactly as many times
\* as messages have been published.
C19_TickCounter ==
  [][/\ frame' >= frame
     /\ frame' # frame =>
          /\ frame' = frame + 1
          /\ pc = "uc_frame"
          /\ ~InTick'
          /\ IdxAt("publish", ticks) # {}
          /\ Len(FrameLog') = Len(FrameLog) + 1
     /\ Len(FrameLog') # Len(FrameLog) => frame' = frame + 1
     /\ Len(FrameLog') >= 1 => frame' = FrameLog'[Len(FrameLog')]
     /\ ~InTick' => Len(FrameLog') = Len(Published')]_vars

\* C19 witness: between ticks, two increments after a counter that started
\* at 7, with two messages published.
C19_Witness ==
  /\ pc = "spin"
  /\ ticks = 2
  /\ frame = 9
  /\ Len(Published) = 2
  /\ FrameLog = << 8, 9 >>

\* ------------------------------------------------------------------------
\* Two runs on the same inputs
\* ------------------------------------------------------------------------

\* what the storage of the two filtered arrays may hold on entry to the
\* constructor
GarbageStates == [pf : GarbageVectors, vf : GarbageVectors]

\* number of ticks of the trace that have published
NPublished == Cardinality(Idx("publish"))

\* lines 96-116 on explicit values: the loop state after a tick that starts
\* in loop state st, samples the raw position cp and measures d as dt
TickStep(st, cp, d) ==
  LET pf == [i \in Joints |->
               Add(Add(Mul(COEF_A, st.pf[i]), Mul(COEF_B, st.cp[i])),
                   Mul(COEF_B, cp[i]))]
  IN  [cp |-> cp,
       pf |-> pf,
       vf |-> [i \in Joints |->
                 Add(Add(Mul(COEF_A, st.vf[i]), Mul(COEF_B, st.cv[i])),
                     Mul(COEF_B, Div(Sub(pf[i], st.pf[i]), d)))],
       cv |-> [i \in Joints |-> Div(Sub(cp[i], st.cp[i]), d)]]

\* the loop states of a run that starts with g in the filtered arrays and
\* receives the samples and timestamps of the trace: after construction,
\* after the first tick, ..., after tick n
RECURSIVE Run(_, _)
Run(n, g) ==
  IF n = 0
  THEN << [cp |-> ArgAt("getJointInfo", 0), pf |-> g.pf, vf |-> g.vf,
           cv |-> ZeroVec] >>
  ELSE LET before == Run(n - 1, g)
       IN  Append(before,
                  TickStep(before[n], ArgAt("getJointInfo", n), DtOf(n)))

\* the messages that run publishes (lines 68-73), given the torques the
\* control law produced in the trace
Replay(g) ==
  LET R == Run(NPublished, g)
  IN  [n \in 1..NPublished |->
         [stamp    |-> ArgAt("now", n),
          position |-> R[n + 1].pf,
          velocity |-> R[n + 1].vf,
          effort   |-> ArgAt("computeDesiredTorque", n),
          name     |-> [i \in Joints |-> jointNames[i]]]]

\* the messages of the trace are those of the run that started with some
\* contents of the filtered arrays
ReplayMatchesRun == \E g \in GarbageStates : Replay(g) = Published

\* C20: two runs that receive the same device samples and statuses, the same
\* tick timestamps and the same torques from the control law publish the same
\* sequence of messages, whatever the storage of the members the constructor
\* does not write held.
C20_Deterministic ==
  \A g1, g2 \in GarbageStates : Replay(g1) = Replay(g2)

====
